---------------------------- MODULE Spec2Model ----------------------------
(***************************************************************************)
(* Model of the Analysis & Policy Evaluation Pipeline of alpha-omega:      *)
(*   - refresh_policies     (omega/oaf/frontend/oaffe/utils/policy.py)     *)
(*   - AnalysisRunner       (omega/oaf/omega/analyze.py)                   *)
(* The persisted store (Subject, Assertion, Policy, PolicyEvaluationResult)*)
(* is modelled as sets of rows; each database operation of a refresh pass  *)
(* is one atomic step.                                                     *)
(***************************************************************************)
EXTENDS Integers, Sequences, FiniteSets, TLC

(***************************************************************************)
(* Bounds of the model.                                                    *)
(***************************************************************************)
\* Largest number of elements in the JSON array the evaluator prints.
MaxResults == 2
\* Number of single-subject passes in one behaviour (a fan-out call takes one
\* per subject).
MaxPasses == 2
\* Largest number of whitespace characters on either side of a state string.
MaxPad == 1
\* Largest number of files in one directory of a searched tree.
MaxFiles == 2

(***************************************************************************)
(* Values.                                                                 *)
(***************************************************************************)
\* Python's None, for a name that holds a string or a result otherwise.
None == "None"
NoResult == [kind |-> "None", returncode |-> 0, valid |-> FALSE, json |-> <<>>]

SUBJECT_TYPE_PACKAGE_URL == "PURL"
SubjectTypes == {SUBJECT_TYPE_PACKAGE_URL, "GITHUB_URL"}

\* PolicyEvaluationResult.Status
PASSED == "PA"
FAILED == "FA"
INDETERMINATE == "IN"
UNKNOWN == "UN"

EvaluatedBy == "org.openssf.alpha-omega.oaf"

\* Subject.objects.all(): the subjects in enumeration order.
SubjectIds == <<"pkg:npm/a", "pkg:npm/b">>
SubjectSet == {SubjectIds[i] : i \in 1..Len(SubjectIds)}

(***************************************************************************)
(* Strings the evaluator may report as "state", as sequences of            *)
(* characters, so that lower() and strip() are computed, not assumed.      *)
(***************************************************************************)
Upper == [c \in {"A", "D", "E", "F", "I", "L", "P", "S"} |->
            CASE c = "A" -> "a" [] c = "D" -> "d" [] c = "E" -> "e"
              [] c = "F" -> "f" [] c = "I" -> "i" [] c = "L" -> "l"
              [] c = "P" -> "p" [] c = "S" -> "s"]
Whitespace == {" ", "\t", "\n"}

\* str.lower()
Lower(s) == [i \in 1..Len(s) |-> IF s[i] \in DOMAIN Upper THEN Upper[s[i]] ELSE s[i]]

\* str.strip(): drops leading and trailing whitespace.
RECURSIVE LStrip(_)
LStrip(s) == IF s # <<>> /\ Head(s) \in Whitespace THEN LStrip(Tail(s)) ELSE s
RECURSIVE RStrip(_)
RStrip(s) == IF s # <<>> /\ s[Len(s)] \in Whitespace
             THEN RStrip(SubSeq(s, 1, Len(s) - 1)) ELSE s
Strip(s) == RStrip(LStrip(s))

StrPass == <<"p", "a", "s", "s">>
StrFail == <<"f", "a", "i", "l">>
StrFailed == <<"f", "a", "i", "l", "e", "d">>

\* Faulty variant: the state is compared as it is spelled.
NormalizeStatus_AsSpelled(state) ==
    IF state = StrPass THEN PASSED
    ELSE IF state \in {StrFail, StrFailed} THEN FAILED
    ELSE IF state # <<>> THEN INDETERMINATE
    ELSE UNKNOWN

\* Lines 70-78: the status stored for a state string.
NormalizeStatus(state) ==
    LET _status == Strip(Lower(state))
    IN  IF _status = StrPass THEN PASSED
        ELSE IF _status \in {StrFail, StrFailed} THEN FAILED
        ELSE IF _status # <<>> THEN INDETERMINATE
        ELSE UNKNOWN

(***************************************************************************)
(* The JSON values the evaluator may print as elements of its array.       *)
(* state: a string, absent (key missing) or null.                          *)
(***************************************************************************)
JStr(s) == [tag |-> "str", val |-> s]
JAbsent == [tag |-> "absent", val |-> <<>>]
JNull == [tag |-> "null", val |-> <<>>]
JObj(id, name, st) == [policy_identifier |-> id, policy_name |-> name, state |-> st]

ResultObjects ==
    { JObj("p1", "Policy A", JStr(<<"P", "A", "S", "S">>)),
      JObj("p1", "Policy A renamed", JStr(<<" ", "F", "a", "i", "l", " ">>)),
      JObj("p4", "Policy D", JAbsent) }
MalformedElements == { JObj("p4", "Policy D", JNull) }
ResultElements == ResultObjects \cup MalformedElements

RECURSIVE SeqsUpTo(_, _)
SeqsUpTo(S, n) ==
    IF n = 0 THEN {<<>>}
    ELSE LET shorter == SeqsUpTo(S, n - 1)
         IN  shorter \cup {Append(q, e) : q \in {r \in shorter : Len(r) = n - 1}, e \in S}

\* What one evaluator call may produce (lines 37-51): a timeout, or a
\* CompletedProcess with a return code and a stdout that is either no JSON
\* (valid FALSE) or a JSON array. A failed run may have printed results too.
EvaluatorOutcomes ==
    {[kind |-> "timeout", returncode |-> 0, valid |-> FALSE, json |-> <<>>]}
    \cup {[kind |-> "exit", returncode |-> rc, valid |-> FALSE, json |-> <<>>] : rc \in {0, 1}}
    \cup {[kind |-> "exit", returncode |-> 0, valid |-> TRUE, json |-> q] :
             q \in SeqsUpTo(ResultElements, MaxResults)}
    \cup {[kind |-> "exit", returncode |-> 1, valid |-> TRUE, json |-> q] :
             q \in SeqsUpTo(ResultElements, 1)}

(***************************************************************************)
(* State.                                                                  *)
(***************************************************************************)
VARIABLES
    \* the store
    subject_type,     \* Subject: identifier -> subject_type
    assertions,       \* Assertion rows [uuid, subject, content]
    policies,         \* Policy rows [identifier, name]
    results,          \* PolicyEvaluationResult rows [pk, policy, subject, status, evaluated_by]
    next_pk,          \* the primary key the next created result gets
    \* refresh_policies: the call in progress
    pc,               \* position in refresh_policies
    passes,           \* single-subject passes the calls made so far account for
    fanout,           \* the top-level call had no subject argument
    queue,            \* fan-out: subjects still to refresh, in enumeration order
    subject,          \* the subject of the pass in progress
    clear_first,      \* argument clear_first
    tmpdir,           \* files of the pass's TemporaryDirectory
    res,              \* result of the evaluator call, None while not assigned
    parsed,           \* json.loads(res.stdout)
    idx,              \* index of the result being processed
    policy,           \* policy of the result being processed
    status,           \* status of the result being processed
    already_cleared,  \* local flag already_cleared
    outcome,          \* how the last pass ended
    \* history
    pre,              \* the store at the start of the pass in progress
    log,              \* the steps of the pass in progress
    calllog,          \* the passes of the current top-level call
    \* two passes for one subject running at once, each with its own locals
    c_pc,             \* position of each pass
    c_parsed,         \* json.loads(res.stdout) of each pass
    c_idx,            \* index of the result each pass is processing
    c_policy,         \* policy of the result each pass is processing
    c_status,         \* status of the result each pass is processing
    c_already_cleared, \* local flag already_cleared of each pass
    last_delete,      \* the pass whose bulk delete ran last, 0 when none has
    \* AnalysisRunner
    a_pc,             \* position of the run, "off" when there is none
    work_tree,        \* os.walk(work_directory_name): directories with their files
    signer,           \* self.signer, None when not configured
    dim,              \* the next dimension of execute_assertions
    attempts,         \* dimensions handed to _execute_assertion_noexcept, in order
    invoked,          \* command lines run by _execute_assertion, in order
    first_failure,    \* the first invocation that raised or exited non-zero
    last,             \* what the latest attempt did
    available,        \* is_command_available: for each required command, its answer
    probed,           \* the required commands probed so far, in order
    env_file,         \* os.path.isfile(".env")
    arg_work_directory, \* argument work_directory, None when not given
    work_directory,   \* self.work_directory: its kind (str or TemporaryDirectory) and name
    cpus,             \* os.environ.get("OMEGA_DOCKER_CPUS"), None when unset
    cmd,              \* execute_docker_container: the argument list cmd
    docker_cmdline,   \* self.docker_cmdline
    cmd_file,         \* content of top-execute-cmd.txt in the work directory
    started,          \* argument lists of the container processes started, in order
    container_exit,   \* res.wait() of the container, NoExit while it has not exited
    error,            \* the exception that left the run
    rmtree_fails,     \* removing the temporary directory would fail
    pre_tree,         \* the caller's directory as it was when the run began
    query,            \* find_output_file: argument filename
    located           \* find_output_file: the value returned

store == <<subject_type, assertions, policies, results, next_pk>>
frame == <<pc, passes, fanout, queue, subject, clear_first, tmpdir, res, parsed, idx,
           policy, status, already_cleared, outcome>>
kvars == <<c_pc, c_parsed, c_idx, c_policy, c_status, c_already_cleared, last_delete>>
rvars == <<store, frame, pre, log, calllog, kvars>>
cvars == <<available, probed, env_file, arg_work_directory, work_directory, cpus, cmd,
           docker_cmdline, cmd_file, started, container_exit, error, rmtree_fails,
           pre_tree>>
lvars == <<query, located>>
avars == <<a_pc, work_tree, signer, dim, attempts, invoked, first_failure, last, cvars, lvars>>
vars == <<rvars, avars>>


(***************************************************************************)
(* Store primitives (Django ORM passes of refresh_policies).                *)
(***************************************************************************)
\* Assertion.objects.filter(subject=subject), line 30
AssertionsOf(s) == {a \in assertions : a.subject = s}

\* json.dumps(assertion.content, indent=2), line 32
Dumps(content) == <<"json", content>>

\* Lines 30-32: one file per assertion, named by its uuid.
SerializedFiles(s) ==
    {[name |-> <<a.uuid, ".json">>, text |-> Dumps(a.content)] : a \in AssertionsOf(s)}

\* Faulty variant: update_or_create instead of get_or_create, the name is overwritten.
GetOrCreatePolicy_Renames(ps, identifier, name) ==
    {p \in ps : p.identifier # identifier} \cup {[identifier |-> identifier, name |-> name]}

\* Policy.objects.get_or_create(identifier=..., defaults={"name": ...}), lines 66-68
GetOrCreatePolicy(ps, identifier, name) ==
    IF \E p \in ps : p.identifier = identifier
    THEN ps
    ELSE ps \cup {[identifier |-> identifier, name |-> name]}

\* Faulty variant: the filter names the wrong field and matches no row.
DeleteResultsOf_Nothing(rs, s) == rs

\* PolicyEvaluationResult.objects.filter(subject=subject).delete(), line 87
DeleteResultsOf(rs, s) == {r \in rs : r.subject # s}

\* The lookup of update_or_create, lines 89-91: all four fields are the key.
Matching(rs, p, s, st, by) ==
    {r \in rs : r.policy = p /\ r.subject = s /\ r.status = st /\ r.evaluated_by = by}

\* PolicyEvaluationResult.objects.update_or_create(policy, subject, status, evaluated_by):
\* no defaults, so a matching row is kept as it is and otherwise a row is created.
UpdateOrCreate(rs, pk, p, s, st, by) ==
    IF Matching(rs, p, s, st, by) # {}
    THEN rs
    ELSE rs \cup {[pk |-> pk, policy |-> p, subject |-> s, status |-> st, evaluated_by |-> by]}

\* result.get("state", ""), line 70: the default only replaces a missing key.
GetState(result) == IF result.state.tag = "absent" THEN JStr(<<>>) ELSE result.state

Snapshot == [results |-> results, policies |-> policies, assertions |-> assertions]

(***************************************************************************)
(* Initial store: subjects of either type, a few assertions, and the       *)
(* results of earlier refreshes.                                           *)
(***************************************************************************)
Row(pk, p, s, st) ==
    [pk |-> pk, policy |-> p, subject |-> s, status |-> st, evaluated_by |-> EvaluatedBy]

InitialPolicies ==
    {[identifier |-> "p1", name |-> "Policy A"],
     [identifier |-> "p2", name |-> "Policy B"],
     [identifier |-> "p3", name |-> "Policy C"]}

InitialResults ==
    {Row(1, "p1", SubjectIds[1], PASSED),
     Row(2, "p2", SubjectIds[1], FAILED),
     Row(3, "p3", SubjectIds[1], UNKNOWN),
     Row(4, "p1", SubjectIds[2], PASSED)}

InitialAssertions ==
    {[uuid |-> "a1", subject |-> SubjectIds[1], content |-> "c1"],
     [uuid |-> "a2", subject |-> SubjectIds[1], content |-> "c2"],
     [uuid |-> "a3", subject |-> SubjectIds[2], content |-> "c3"]}

\* The passes running at once.
Procs == {1, 2}

\* No two passes run at once.
ConcurrentOff ==
    /\ c_pc = [p \in Procs |-> "off"]
    /\ c_parsed = [p \in Procs |-> <<>>]
    /\ c_idx = [p \in Procs |-> 0]
    /\ c_policy = [p \in Procs |-> None]
    /\ c_status = [p \in Procs |-> None]
    /\ c_already_cleared = [p \in Procs |-> FALSE]
    /\ last_delete = 0

RefreshInit ==
    /\ subject_type \in {f \in [SubjectSet -> SubjectTypes] :
                           f[SubjectIds[1]] = SUBJECT_TYPE_PACKAGE_URL}
    /\ assertions = InitialAssertions
    /\ policies = InitialPolicies
    /\ results = InitialResults
    /\ next_pk = 5
    /\ pc = "idle"
    /\ passes = 0
    /\ fanout = FALSE
    /\ queue = <<>>
    /\ subject = None
    /\ clear_first = FALSE
    /\ tmpdir = {}
    /\ res = NoResult
    /\ parsed = <<>>
    /\ idx = 0
    /\ policy = None
    /\ status = None
    /\ already_cleared = FALSE
    /\ outcome = "none"
    /\ pre = Snapshot
    /\ log = <<>>
    /\ calllog = <<>>
    /\ ConcurrentOff

(***************************************************************************)
(* refresh_policies, one action per step.                                  *)
(***************************************************************************)
\* Entry into the body of a single-subject pass (line 23).
BeginPass(s) ==
    /\ subject' = s
    /\ pc' = "validate"
    /\ tmpdir' = {}
    /\ res' = NoResult
    /\ parsed' = <<>>
    /\ idx' = 0
    /\ policy' = None
    /\ status' = None
    /\ already_cleared' = FALSE
    /\ outcome' = "running"
    /\ pre' = Snapshot
    /\ log' = <<>>

\* The single-subject passes a call accounts for.
PassesOf(s) == IF s = None THEN Len(SubjectIds) ELSE 1

\* refresh_policies(subject, clear_first) called from outside, lines 13-23.
Call(s, cf) ==
    /\ pc \in {"idle", "returned", "raised"}
    /\ passes + PassesOf(s) <= MaxPasses
    /\ passes' = passes + PassesOf(s)
    /\ clear_first' = cf
    /\ IF s = None
       THEN /\ fanout' = TRUE
            /\ queue' = SubjectIds
            /\ pc' = "fanout"
            /\ log' = <<>>
            /\ calllog' = <<>>
            /\ subject' = None
            /\ tmpdir' = {}
            /\ res' = NoResult
            /\ parsed' = <<>>
            /\ idx' = 0
            /\ policy' = None
            /\ status' = None
            /\ already_cleared' = FALSE
            /\ outcome' = "none"
            /\ pre' = Snapshot
       ELSE /\ fanout' = FALSE
            /\ queue' = <<>>
            /\ calllog' = << <<"begin", s>> >>
            /\ BeginPass(s)
    /\ UNCHANGED store
    /\ UNCHANGED <<avars, kvars>>

\* Lines 18-19: the next subject of the fan-out is refreshed.
FanoutNext ==
    /\ pc = "fanout"
    /\ queue # <<>>
    /\ queue' = Tail(queue)
    /\ calllog' = Append(calllog, <<"begin", Head(queue)>>)
    /\ BeginPass(Head(queue))
    /\ UNCHANGED <<store, passes, fanout, clear_first>>
    /\ UNCHANGED <<avars, kvars>>

\* Line 20: the fan-out loop is exhausted.
FanoutReturn ==
    /\ pc = "fanout"
    /\ queue = <<>>
    /\ pc' = "returned"
    /\ UNCHANGED <<store, passes, fanout, queue, subject, clear_first, tmpdir, res, parsed,
                   idx, policy, status, already_cleared, outcome, pre, log>>
    /\ UNCHANGED <<calllog, avars, kvars>>

\* Faulty variant: the subject type is not checked.
IsPackageUrl_Unchecked(type) == TRUE

\* Line 25.
IsPackageUrl(type) == type = SUBJECT_TYPE_PACKAGE_URL

\* Lines 25-27.
ValidateType ==
    /\ pc = "validate"
    /\ IF ~IsPackageUrl(subject_type[subject])
       THEN /\ outcome' = "invalid_type"
            /\ pc' = "return"
       ELSE /\ pc' = "collect"
            /\ UNCHANGED outcome
    /\ UNCHANGED <<store, passes, fanout, queue, subject, clear_first, tmpdir, res, parsed,
                   idx, policy, status, already_cleared, pre, log>>
    /\ UNCHANGED <<calllog, avars, kvars>>

\* Lines 29-32.
CollectAssertions ==
    /\ pc = "collect"
    /\ tmpdir' = SerializedFiles(subject)
    /\ log' = Append(log, <<"serialize", subject, Cardinality(SerializedFiles(subject))>>)
    /\ pc' = "invoke"
    /\ UNCHANGED <<store, passes, fanout, queue, subject, clear_first, res, parsed, idx,
                   policy, status, already_cleared, outcome, pre>>
    /\ UNCHANGED <<calllog, avars, kvars>>

\* Lines 36-51: the evaluator runs and returns within the timeout.
InvokeEvaluator ==
    /\ pc = "invoke"
    /\ \E o \in {e \in EvaluatorOutcomes : e.kind # "timeout"} : res' = o
    /\ log' = Append(log, <<"evaluate", subject>>)
    /\ pc' = "parse"
    /\ UNCHANGED <<store, passes, fanout, queue, subject, clear_first, tmpdir, parsed, idx,
                   policy, status, already_cleared, outcome, pre>>
    /\ UNCHANGED <<calllog, avars, kvars>>

\* Lines 97-100, the handler of subprocess.TimeoutExpired: it logs res.stdout.
\* With res a result the handler ends the pass normally; with res None the
\* attribute access raises AttributeError, which nothing catches.
TimeoutHandler(r) == IF r = NoResult THEN "raise" ELSE "return"

\* Lines 36-51 and 97-100: the evaluator exceeds the timeout; subprocess.run
\* raises TimeoutExpired, so res keeps the None of line 35.
EvaluatorTimeout ==
    /\ pc = "invoke"
    /\ \E o \in {e \in EvaluatorOutcomes : e.kind = "timeout"} : TRUE
    /\ log' = Append(log, <<"timeout", subject>>)
    /\ calllog' = Append(calllog, <<"timeout", subject>>)
    /\ outcome' = "timeout"
    /\ pc' = TimeoutHandler(res)
    /\ UNCHANGED <<store, passes, fanout, queue, subject, clear_first, tmpdir, res, parsed,
                   idx, policy, status, already_cleared, pre>>
    /\ UNCHANGED <<avars, kvars>>

\* Faulty variant: a loop that is exhausted at once goes to the delete.
LoopHead_ClearsWhenEmpty(i, rs) ==
    IF i <= Len(rs) THEN "loop" ELSE IF rs = <<>> THEN "clear" ELSE "return"

\* Line 62: the loop takes the next result, or is exhausted and the pass returns.
LoopHead(i, rs) == IF i <= Len(rs) THEN "loop" ELSE "return"

\* Faulty variant: the return code is not checked.
ReturnedZero_Unchecked(r) == TRUE

\* Line 53.
ReturnedZero(r) == r.returncode = 0

\* Lines 53-58 and 92-95: json.loads raises on a stdout that is no JSON.
ParseOutput ==
    /\ pc = "parse"
    /\ IF ReturnedZero(res)
       THEN IF ~res.valid
            THEN /\ outcome' = "parse_error"
                 /\ pc' = "return"
                 /\ UNCHANGED <<parsed, idx>>
            ELSE /\ parsed' = res.json
                 /\ idx' = 1
                 /\ pc' = LoopHead(1, res.json)
                 /\ outcome' = IF LoopHead(1, res.json) = "return" THEN "ok" ELSE outcome
       ELSE /\ outcome' = "eval_failed"
            /\ pc' = "return"
            /\ UNCHANGED <<parsed, idx>>
    /\ UNCHANGED <<store, passes, fanout, queue, subject, clear_first, tmpdir, res,
                   policy, status, already_cleared, pre, log>>
    /\ UNCHANGED <<calllog, avars, kvars>>

\* Faulty variant: the bulk delete is never due.
MustClear_Never(cf, cleared) == FALSE

\* Faulty variant: the flag already_cleared is not consulted.
MustClear_EveryResult(cf, cleared) == cf

\* Line 85: whether the bulk delete runs before this result's upsert.
MustClear(cf, cleared) == cf /\ ~cleared

\* Lines 62-85: the next result. The policy is fetched or created (lines
\* 66-68); .lower() raises AttributeError on a null state (line 70); otherwise
\* the status is normalized (lines 70-78).
GetOrCreate ==
    /\ pc = "loop"
    /\ idx <= Len(parsed)
    /\ policies' = GetOrCreatePolicy(policies, parsed[idx].policy_identifier,
                                     parsed[idx].policy_name)
    /\ policy' = parsed[idx].policy_identifier
    /\ log' = Append(log, <<"get_or_create", subject, parsed[idx].policy_identifier>>)
    /\ IF GetState(parsed[idx]).tag # "str"
       THEN /\ pc' = "raise"
            /\ UNCHANGED status
       ELSE /\ status' = NormalizeStatus(GetState(parsed[idx]).val)
            /\ pc' = IF MustClear(clear_first, already_cleared) THEN "clear" ELSE "upsert"
    /\ UNCHANGED <<subject_type, assertions, results, next_pk, passes, fanout, queue, subject,
                   clear_first, tmpdir, res, parsed, idx, already_cleared, outcome, pre>>
    /\ UNCHANGED <<calllog, avars, kvars>>

\* Lines 85-87.
ClearExisting ==
    /\ pc = "clear"
    /\ already_cleared' = TRUE
    /\ results' = DeleteResultsOf(results, subject)
    /\ log' = Append(log, <<"delete", subject>>)
    /\ pc' = "upsert"
    /\ UNCHANGED <<subject_type, assertions, policies, next_pk, passes, fanout, queue, subject,
                   clear_first, tmpdir, res, parsed, idx, policy, status, outcome, pre>>
    /\ UNCHANGED <<calllog, avars, kvars>>

\* Lines 89-91, then back to the head of the loop (line 62).
Upsert ==
    /\ pc = "upsert"
    /\ results' = UpdateOrCreate(results, next_pk, policy, subject, status, EvaluatedBy)
    /\ next_pk' = IF results' = results THEN next_pk ELSE next_pk + 1
    /\ log' = Append(log, <<"upsert", subject, policy, status>>)
    /\ idx' = idx + 1
    /\ pc' = LoopHead(idx + 1, parsed)
    /\ outcome' = IF LoopHead(idx + 1, parsed) = "return" THEN "ok" ELSE outcome
    /\ UNCHANGED <<subject_type, assertions, policies, passes, fanout, queue, subject,
                   clear_first, tmpdir, res, parsed, policy, status, already_cleared, pre>>
    /\ UNCHANGED <<calllog, avars, kvars>>

\* The pass returns (lines 27, 58, 91, 95); the TemporaryDirectory is removed.
Return ==
    /\ pc = "return"
    /\ tmpdir' = {}
    /\ calllog' = Append(calllog, <<"end", subject>>)
    /\ pc' = IF fanout THEN "fanout" ELSE "returned"
    /\ UNCHANGED <<store, passes, fanout, queue, subject, clear_first, res, parsed, idx,
                   policy, status, already_cleared, outcome, pre>>
    /\ UNCHANGED <<log, avars, kvars>>

\* An exception leaves the pass: the TemporaryDirectory is removed, and the
\* exception leaves the fan-out loop of lines 18-19 and refresh_policies.
Propagate ==
    /\ pc = "raise"
    /\ tmpdir' = {}
    /\ calllog' = Append(calllog, <<"raised", subject>>)
    /\ outcome' = "raised"
    /\ pc' = "raised"
    /\ UNCHANGED <<store, passes, fanout, queue, subject, clear_first, res, parsed, idx,
                   policy, status, already_cleared, pre>>
    /\ UNCHANGED <<log, avars, kvars>>

RefreshNext ==
    \/ \E s \in SubjectSet \cup {None}, cf \in BOOLEAN : Call(s, cf)
    \/ FanoutNext
    \/ FanoutReturn
    \/ ValidateType
    \/ CollectAssertions
    \/ InvokeEvaluator
    \/ EvaluatorTimeout
    \/ ParseOutput
    \/ GetOrCreate
    \/ ClearExisting
    \/ Upsert
    \/ Return
    \/ Propagate

(***************************************************************************)
(* Two calls refresh_policies(subject, clear_first=True) for one subject   *)
(* running at once, e.g. in two worker processes on one database. Each     *)
(* has parsed its evaluator's output and is in the loop of lines 62-91;    *)
(* every database operation is one atomic step, and nothing else orders    *)
(* the steps of the two passes.                                            *)
(***************************************************************************)
\* The arrays of well-formed results a pass may have parsed, none empty.
ParsedLists == SeqsUpTo(ResultObjects, MaxResults) \ {<<>>}

ConcurrentInit ==
    /\ subject_type = [s \in SubjectSet |-> SUBJECT_TYPE_PACKAGE_URL]
    /\ assertions = InitialAssertions
    /\ policies = InitialPolicies
    /\ results = InitialResults
    /\ next_pk = 5
    /\ pc = "idle"
    /\ passes = 0
    /\ fanout = FALSE
    /\ queue = <<>>
    /\ subject = SubjectIds[1]
    /\ clear_first = TRUE
    /\ tmpdir = {}
    /\ res = NoResult
    /\ parsed = <<>>
    /\ idx = 0
    /\ policy = None
    /\ status = None
    /\ already_cleared = FALSE
    /\ outcome = "none"
    /\ pre = Snapshot
    /\ log = <<>>
    /\ calllog = <<>>
    /\ c_pc = [p \in Procs |-> "loop"]
    /\ c_parsed \in [Procs -> ParsedLists]
    /\ c_idx = [p \in Procs |-> 1]
    /\ c_policy = [p \in Procs |-> None]
    /\ c_status = [p \in Procs |-> None]
    /\ c_already_cleared = [p \in Procs |-> FALSE]
    /\ last_delete = 0

\* Lines 62-85 in pass p: the policy is fetched or created and the status is
\* normalized.
PassGetOrCreate(p) ==
    /\ c_pc[p] = "loop"
    /\ policies' = GetOrCreatePolicy(policies, c_parsed[p][c_idx[p]].policy_identifier,
                                     c_parsed[p][c_idx[p]].policy_name)
    /\ c_policy' = [c_policy EXCEPT ![p] = c_parsed[p][c_idx[p]].policy_identifier]
    /\ c_status' = [c_status EXCEPT
                      ![p] = NormalizeStatus(GetState(c_parsed[p][c_idx[p]]).val)]
    /\ c_pc' = [c_pc EXCEPT ![p] = IF MustClear(clear_first, c_already_cleared[p])
                                   THEN "clear" ELSE "upsert"]
    /\ UNCHANGED <<subject_type, assertions, results, next_pk, frame, pre, log, calllog>>
    /\ UNCHANGED <<c_parsed, c_idx, c_already_cleared, last_delete, avars>>

\* Lines 85-87 in pass p.
PassClearExisting(p) ==
    /\ c_pc[p] = "clear"
    /\ c_already_cleared' = [c_already_cleared EXCEPT ![p] = TRUE]
    /\ results' = DeleteResultsOf(results, subject)
    /\ last_delete' = p
    /\ c_pc' = [c_pc EXCEPT ![p] = "upsert"]
    /\ UNCHANGED <<subject_type, assertions, policies, next_pk, frame, pre, log, calllog>>
    /\ UNCHANGED <<c_parsed, c_idx, c_policy, c_status, avars>>

\* Lines 89-91 in pass p, then the head of its loop (line 62); the pass is
\* done when its loop is exhausted.
PassUpsert(p) ==
    /\ c_pc[p] = "upsert"
    /\ results' = UpdateOrCreate(results, next_pk, c_policy[p], subject, c_status[p],
                                 EvaluatedBy)
    /\ next_pk' = IF results' = results THEN next_pk ELSE next_pk + 1
    /\ c_idx' = [c_idx EXCEPT ![p] = c_idx[p] + 1]
    /\ c_pc' = [c_pc EXCEPT ![p] = IF LoopHead(c_idx[p] + 1, c_parsed[p]) = "return"
                                   THEN "done" ELSE "loop"]
    /\ UNCHANGED <<subject_type, assertions, policies, frame, pre, log, calllog>>
    /\ UNCHANGED <<c_parsed, c_policy, c_status, c_already_cleared, last_delete, avars>>

ConcurrentNext ==
    \/ \E p \in Procs : PassGetOrCreate(p)
    \/ \E p \in Procs : PassClearExisting(p)
    \/ \E p \in Procs : PassUpsert(p)

(***************************************************************************)
(* AnalysisRunner (analyze.py).                                            *)
(* A file name is a stem and an extension; a query is a file name whose    *)
(* parts may be the wildcard "*".                                          *)
(***************************************************************************)
File(stem, ext) == [stem |-> stem, ext |-> ext]

\* fnmatch.fnmatch(file, pattern), line 172
Fnmatch(file, pattern) ==
    /\ pattern.stem = "*" \/ pattern.stem = file.stem
    /\ pattern.ext = "*" \/ pattern.ext = file.ext

\* os.path.join(root, file)
Join(root, file) == [path |-> <<root, file>>]

\* None as a keyword-argument value or as the result of find_output_file.
NotFound == [none |-> TRUE]

Range(q) == {q[i] : i \in 1..Len(q)}

\* The first file of a directory matching the pattern (lines 171-173).
RECURSIVE FirstGlob(_, _)
FirstGlob(files, pattern) ==
    IF files = <<>> THEN NotFound
    ELSE IF Fnmatch(Head(files), pattern) THEN [found |-> Head(files)]
    ELSE FirstGlob(Tail(files), pattern)

\* Lines 167-173: per directory, the exact name first, then the first glob match.
RECURSIVE FirstLoop(_, _)
FirstLoop(tree, filename) ==
    IF tree = <<>> THEN NotFound
    ELSE IF filename \in Range(Head(tree).files) THEN Join(Head(tree).root, filename)
    ELSE IF FirstGlob(Head(tree).files, filename) # NotFound
         THEN Join(Head(tree).root, FirstGlob(Head(tree).files, filename).found)
    ELSE FirstLoop(Tail(tree), filename)

\* Lines 175-177: the second walk, exact names only.
RECURSIVE SecondLoop(_, _)
SecondLoop(tree, filename) ==
    IF tree = <<>> THEN NotFound
    ELSE IF filename \in Range(Head(tree).files) THEN Join(Head(tree).root, filename)
    ELSE SecondLoop(Tail(tree), filename)

\* AnalysisRunner.find_output_file, lines 165-179
find_output_file(tree, filename) ==
    IF FirstLoop(tree, filename) # NotFound THEN FirstLoop(tree, filename)
    ELSE SecondLoop(tree, filename)

NoFile == File("", "")

\* execute_assertions, lines 181-279: the dimensions in call order, each with
\* the artifact it looks up (NoFile when it passes no input-file) and its
\* extra-args (None when it passes none).
Dimension(name, artifact, extra) == [assertion |-> name, artifact |-> artifact, extra |-> extra]
Dimensions ==
    << Dimension("SecurityScorecard", NoFile, None),
       Dimension("SecurityAdvisory", NoFile, None),
       Dimension("Reproducible", NoFile, None),
       Dimension("SecurityToolFinding", File("tool-semgrep", "sarif"), "include_evidence=false"),
       Dimension("SecurityToolFinding", File("tool-devskim", "sarif"), "include_evidence=false"),
       Dimension("SecurityToolFinding", File("tool-codeql-basic.javascript", "sarif"),
                 "include_evidence=false"),
       Dimension("SecurityToolFinding", File("tool-snyk-code", "sarif"), "include_evidence=false"),
       Dimension("ProgrammingLanguage", File("tool-application-inspector", "json"), None),
       Dimension("Characteristic", File("tool-application-inspector", "json"), None),
       Dimension("CryptoImplementation", File("tool-oss-detect-cryptography", "txt"), None),
       Dimension("ClamAV", File("tool-clamscan", "txt"), None),
       Dimension("Metadata", File("tool-metadata-native", "json"), None) >>

PackageUrl == "pkg:npm/a@1.0"
Repository == "dir:/repo"

\* A keyword argument; its value is a string, a path or None.
Kw(key, value) == [key |-> key, value |-> value]
HasKey(kwargs, key) == \E i \in 1..Len(kwargs) : kwargs[i].key = key
Get(kwargs, key) ==
    IF HasKey(kwargs, key)
    THEN kwargs[CHOOSE i \in 1..Len(kwargs) : kwargs[i].key = key].value
    ELSE NotFound

\* The keyword arguments execute_assertions passes for a dimension, in order.
Kwargs(d, tree, sg) ==
    << Kw("assertion", [str |-> d.assertion]), Kw("subject", [str |-> PackageUrl]) >>
    \o (IF d.artifact # NoFile
        THEN << Kw("input-file", find_output_file(tree, d.artifact)) >>
        ELSE <<>>)
    \o << Kw("repository", [str |-> Repository]),
          Kw("signer", IF sg = None THEN NotFound ELSE [str |-> sg]) >>
    \o (IF d.extra # None THEN << Kw("extra-args", [str |-> d.extra]) >> ELSE <<>>)

\* kwargs.get(key) is falsy: the key is missing, or its value is None or "".
Falsy(v) == v = NotFound \/ v = [str |-> ""]

\* Faulty variant: an attempt is never skipped.
ShouldSkip_Never(kwargs) == FALSE

\* Line 124.
ShouldSkip(kwargs) == HasKey(kwargs, "input-file") /\ Falsy(Get(kwargs, "input-file"))

\* Lines 146-151: every keyword argument as a flag and its value.
RECURSIVE FlagsOf(_)
FlagsOf(kwargs) ==
    IF kwargs = <<>> THEN <<>>
    ELSE << [flag |-> Head(kwargs).key],
            [arg |-> IF Head(kwargs).value = NotFound
                     THEN [str |-> ""] ELSE Head(kwargs).value] >>
         \o FlagsOf(Tail(kwargs))

DefaultExpiration == [str |-> "now+730d"]

\* _execute_assertion, lines 134-151: the command line.
CommandLine(kwargs) ==
    << [lit |-> "python"], [lit |-> "oaf.py"], [lit |-> "--verbose"], [lit |-> "generate"] >>
    \o (IF HasKey(kwargs, "expiration")
        THEN << [flageq |-> "expiration", value |-> Get(kwargs, "expiration")] >>
        ELSE <<>>)
    \o (IF ~Falsy(Get(kwargs, "signer"))
        THEN << [flageq |-> "signer", value |-> Get(kwargs, "signer")] >>
        ELSE <<>>)
    \o FlagsOf(IF HasKey(kwargs, "expiration")
               THEN kwargs
               ELSE Append(kwargs, Kw("expiration", DefaultExpiration)))

\* What running the utility may do (line 157): exit 0, exit non-zero, or raise.
RunOutcomes == {"exit 0", "exit 1", "OSError"}

\* Faulty variant: the handler catches nothing.
Catches_Nothing(o) == FALSE

\* Line 128, except Exception: every exception of the invocation is caught.
Catches(o) == o = "OSError"

(***************************************************************************)
(* The work directory after the container ran: what the tools left there.  *)
(***************************************************************************)
RootListings ==
    { <<>>,
      << File("tool-semgrep", "sarif") >>,
      << File("top-execute-cmd", "txt"), File("tool-semgrep", "sarif"),
         File("tool-application-inspector", "json"), File("tool-clamscan", "txt") >>,
      << File("tool-semgrep", "sarif"), File("tool-devskim", "sarif"),
         File("tool-codeql-basic.javascript", "sarif"), File("tool-snyk-code", "sarif"),
         File("tool-application-inspector", "json"),
         File("tool-oss-detect-cryptography", "txt"), File("tool-clamscan", "txt") >> }
SubListings ==
    { <<>>, << File("tool-metadata-native", "json"), File("tool-devskim", "sarif") >> }
WorkTrees ==
    { << [root |-> "/work", files |-> r], [root |-> "/work/out", files |-> s] >> :
        r \in RootListings, s \in SubListings }

(***************************************************************************)
(* AnalysisRunner: construction and the container.                         *)
(* A command-line argument is a sequence of string pieces (an f-string's   *)
(* parts); a directory on disk is the sequence os.walk yields for it, the  *)
(* empty sequence when it does not exist.                                  *)
(***************************************************************************)
DockerContainer == "openssf/omega-toolshed:latest"

\* __init__, lines 29-36
RequiredCommands ==
    << <<"python", "-V">>, <<"dotnet", "--info">>, <<"RecursiveExtractor", "--help">>,
       <<"docker", "--help">>, <<"docker", "image", "inspect", DockerContainer>>,
       <<"oss-find-source", "--help">> >>

\* The name tempfile.TemporaryDirectory(prefix="omega-") picks (line 58).
TempName == "/tmp/omega-x1"
\* Directories the caller may name with --work-directory.
CallerDirs == {"/work", "/my work"}

NoDirectory == [kind |-> "unset", name |-> None]
NoError == [type |-> "none", about |-> <<>>]
\* No text: self.docker_cmdline while None, the content of a file that is absent.
NoText == <<>>
\* The content of a top-execute-cmd.txt left by an earlier run.
OldText == << [raw |-> <<"docker">>], [raw |-> <<"run">>] >>

\* res.wait() of a process that has not exited.
NoExit == -1
\* Exit codes of the container.
ExitCodes == {0, 1}

\* Faulty variant: the exit code is not checked.
ExitedZero_Unchecked(code) == TRUE

\* Line 119.
ExitedZero(code) == code = 0

\* Python truth of a string or None.
Truthy(v) == v # None /\ v # ""

\* os.walk of an empty directory.
EmptyTree(name) == << [root |-> name, files |-> <<>>] >>

\* Faulty variant: the listing is not looked at.
ListdirEmpty_Unchecked(tree) == TRUE

\* os.listdir(_wd), line 67: empty when the directory has no file and no
\* subdirectory.
ListdirEmpty(tree) == Len(tree) = 1 /\ tree[1].files = <<>>

\* cmd.index(x): the position of the first element equal to x.
Index(q, x) == CHOOSE i \in 1..Len(q) : q[i] = x /\ \A j \in 1..(i - 1) : q[j] # x

\* Faulty variant: x is put after the element at position i.
Insert_After(q, i, x) == SubSeq(q, 1, i) \o <<x>> \o SubSeq(q, i + 1, Len(q))

\* cmd.insert(i, x): x is put before the element at position i.
Insert(q, i, x) == SubSeq(q, 1, i - 1) \o <<x>> \o SubSeq(q, i, Len(q))

\* execute_docker_container, lines 85-100: the argument list.
DockerCmd(name, container, purl, cpusval) ==
    LET base == << <<"docker">>, <<"run">>, <<"--rm">>, <<"-t">>, <<"-v">>,
                   <<name, ":/opt/export">>, <<"--env-file">>, <<".env">>,
                   <<container>>, <<purl>> >>
    IN  IF Truthy(cpusval)
        THEN Insert(base, Index(base, <<"-t">>), <<"--cpus=", cpusval>>)
        ELSE base

\* Strings with a character outside shlex's safe set [A-Za-z0-9@%+=:,./-].
UnsafeStrings == {"/my work"}

\* shlex.quote: an argument with an unsafe character, or an empty one, is
\* put in single quotes.
Quote(arg) ==
    IF arg = <<>> \/ \E i \in 1..Len(arg) : arg[i] \in UnsafeStrings \/ arg[i] = ""
    THEN [quoted |-> arg]
    ELSE [raw |-> arg]

\* shlex.join(cmd), line 103: the quoted arguments, separated by spaces.
ShlexJoin(argv) == [i \in 1..Len(argv) |-> Quote(argv[i])]

\* The file top-execute-cmd.txt.
TopFile == File("top-execute-cmd", "txt")

\* os.path.join(name, "out")
OutDir(name) ==
    CASE name = "/work" -> "/work/out"
      [] name = "/my work" -> "/my work/out"
      [] OTHER -> "/tmp/omega-x1/out"

\* What the container leaves in the work directory mounted at /opt/export.
ToolOutputs(listing) == SelectSeq(listing, LAMBDA f : f # TopFile)
TreesAt(name) ==
    { << [root |-> name, files |-> <<TopFile>> \o ToolOutputs(r)],
         [root |-> OutDir(name), files |-> s] >> :
        r \in RootListings, s \in SubListings }

\* A directory left by an earlier run.
UsedTree(name) ==
    << [root |-> name, files |-> << TopFile, File("tool-semgrep", "sarif") >>] >>

NoFailure == [dim |-> 0, outcome |-> "none"]

\* find_output_file has not returned.
NotLocated == [pending |-> TRUE]

\* No call of find_output_file is followed on its own.
LocateOff ==
    /\ query = NoFile
    /\ located = NotLocated

\* Nothing of a runner has happened.
RunnerOff ==
    /\ available = [i \in 1..Len(RequiredCommands) |-> TRUE]
    /\ probed = <<>>
    /\ env_file = TRUE
    /\ arg_work_directory = None
    /\ work_directory = NoDirectory
    /\ cpus = None
    /\ cmd = <<>>
    /\ docker_cmdline = NoText
    /\ cmd_file = NoText
    /\ started = <<>>
    /\ container_exit = NoExit
    /\ error = NoError
    /\ rmtree_fails = FALSE
    /\ pre_tree = <<>>
    /\ LocateOff

\* The runner was constructed on the directory /work and its container exited 0.
RunnerReady ==
    /\ available = [i \in 1..Len(RequiredCommands) |-> TRUE]
    /\ probed = RequiredCommands
    /\ env_file = TRUE
    /\ arg_work_directory = "/work"
    /\ work_directory = [kind |-> "str", name |-> "/work"]
    /\ cpus = None
    /\ cmd = DockerCmd("/work", DockerContainer, PackageUrl, None)
    /\ docker_cmdline = ShlexJoin(DockerCmd("/work", DockerContainer, PackageUrl, None))
    /\ cmd_file = ShlexJoin(DockerCmd("/work", DockerContainer, PackageUrl, None))
    /\ started = << DockerCmd("/work", DockerContainer, PackageUrl, None) >>
    /\ container_exit = 0
    /\ error = NoError
    /\ rmtree_fails = FALSE
    /\ pre_tree = <<>>
    /\ LocateOff

AnalyzeOff ==
    /\ a_pc = "off"
    /\ work_tree = <<>>
    /\ signer = None
    /\ dim = 1
    /\ attempts = <<>>
    /\ invoked = <<>>
    /\ first_failure = NoFailure
    /\ last = "none"
    /\ RunnerOff

\* The runner is constructed and the container has run: execute_assertions starts.
AnalyzeInit ==
    /\ a_pc = "assert"
    /\ work_tree \in WorkTrees
    /\ signer \in {None, "alice"}
    /\ dim = 1
    /\ attempts = <<>>
    /\ invoked = <<>>
    /\ first_failure = NoFailure
    /\ last = "none"
    /\ RunnerReady

\* After the attempt of dimension d: the next call of execute_assertions, or its end.
AfterAttempt(d) == IF d < Len(Dimensions) THEN "assert" ELSE "done"

\* _execute_assertion_noexcept for the next dimension, lines 122-129: the attempt
\* is skipped when the input file is not set.
SkipAssertion ==
    /\ a_pc = "assert"
    /\ ShouldSkip(Kwargs(Dimensions[dim], work_tree, signer))
    /\ attempts' = Append(attempts, dim)
    /\ last' = "skipped"
    /\ a_pc' = AfterAttempt(dim)
    /\ dim' = dim + 1
    /\ UNCHANGED <<work_tree, signer, invoked, first_failure, cvars, lvars, rvars>>

\* _execute_assertion_noexcept for the next dimension, lines 122-129, with
\* _execute_assertion, lines 131-163: the utility is run once.
ExecuteAssertion ==
    /\ a_pc = "assert"
    /\ ~ShouldSkip(Kwargs(Dimensions[dim], work_tree, signer))
    /\ \E o \in RunOutcomes :
         /\ invoked' = Append(invoked,
                [dim |-> dim, cmd |-> CommandLine(Kwargs(Dimensions[dim], work_tree, signer))])
         /\ attempts' = Append(attempts, dim)
         /\ last' = o
         /\ first_failure' = IF o = "exit 0" \/ first_failure # NoFailure
                            THEN first_failure
                            ELSE [dim |-> dim, outcome |-> o]
         /\ IF o \in {"exit 0", "exit 1"} \/ Catches(o)
            THEN /\ a_pc' = AfterAttempt(dim)
                 /\ dim' = dim + 1
            ELSE /\ a_pc' = "raised"
                 /\ UNCHANGED dim
    /\ UNCHANGED <<work_tree, signer, cvars, lvars, rvars>>

AnalyzeNext ==
    \/ SkipAssertion
    \/ ExecuteAssertion

(***************************************************************************)
(* find_output_file on its own: any query on any small tree. A file may    *)
(* be named like a pattern: "*.sarif" is a legal file name.                *)
(***************************************************************************)
LocateFiles ==
    { File("a", "json"), File("b", "txt"), File("tool-x", "sarif"), File("*", "sarif") }
Queries ==
    { File("a", "json"), File("missing", "txt"), File("tool-x", "sarif"),
      File("*", "sarif"), File("*", "json"), File("*", "*") }

\* The listings of a directory: its files in any order, no name twice.
Listings ==
    { q \in SeqsUpTo(LocateFiles, MaxFiles) : \A i, j \in 1..Len(q) : q[i] = q[j] => i = j }

LocateTrees ==
    { << [root |-> "/work", files |-> r], [root |-> "/work/out", files |-> s] >> :
        r \in Listings, s \in Listings }

LocateInit ==
    /\ a_pc = "locate"
    /\ work_tree \in LocateTrees
    /\ query \in Queries
    /\ located = NotLocated
    /\ signer = None
    /\ dim = 1
    /\ attempts = <<>>
    /\ invoked = <<>>
    /\ first_failure = NoFailure
    /\ last = "none"
    /\ available = [i \in 1..Len(RequiredCommands) |-> TRUE]
    /\ probed = RequiredCommands
    /\ env_file = TRUE
    /\ arg_work_directory = "/work"
    /\ work_directory = [kind |-> "str", name |-> "/work"]
    /\ cpus = None
    /\ cmd = <<>>
    /\ docker_cmdline = NoText
    /\ cmd_file = NoText
    /\ started = <<>>
    /\ container_exit = NoExit
    /\ error = NoError
    /\ rmtree_fails = FALSE
    /\ pre_tree = <<>>

\* AnalysisRunner.find_output_file(filename), lines 165-179.
Locate ==
    /\ a_pc = "locate"
    /\ located' = find_output_file(work_tree, query)
    /\ a_pc' = "located"
    /\ UNCHANGED <<work_tree, signer, dim, attempts, invoked, first_failure, last, cvars,
                   query, rvars>>

(***************************************************************************)
(* One run of analyze.py (__main__, lines 297-300): the runner is          *)
(* constructed, the container runs, the assertions are generated, and the  *)
(* process ends.                                                           *)
(***************************************************************************)
RunInit ==
    /\ a_pc = "probe"
    /\ available \in [1..Len(RequiredCommands) -> BOOLEAN]
    /\ probed = <<>>
    /\ env_file \in BOOLEAN
    /\ arg_work_directory \in CallerDirs \cup {None}
    /\ work_tree \in IF arg_work_directory = None
                     THEN {<<>>}
                     ELSE {<<>>, EmptyTree(arg_work_directory), UsedTree(arg_work_directory)}
    /\ work_directory = NoDirectory
    /\ cpus \in {None, "", "2"}
    /\ cmd = <<>>
    /\ docker_cmdline = NoText
    /\ cmd_file = IF work_tree # <<>> /\ TopFile \in Range(work_tree[1].files)
                  THEN OldText ELSE NoText
    /\ started = <<>>
    /\ container_exit = NoExit
    /\ error = NoError
    /\ rmtree_fails \in BOOLEAN
    /\ pre_tree = work_tree
    /\ signer \in {None, "alice"}
    /\ dim = 1
    /\ attempts = <<>>
    /\ invoked = <<>>
    /\ first_failure = NoFailure
    /\ last = "none"
    /\ LocateOff

\* Faulty variant: the answer of the probe is not looked at.
ProbePasses_Always(ok) == TRUE

\* Line 41.
ProbePasses(ok) == ok

\* __init__, lines 40-42: the next required command is probed.
ProbeCommand ==
    /\ a_pc = "probe"
    /\ LET i == Len(probed) + 1
       IN  /\ probed' = Append(probed, RequiredCommands[i])
           /\ IF ~ProbePasses(available[i])
              THEN /\ error' = [type |-> "EnvironmentError", about |-> RequiredCommands[i]]
                   /\ a_pc' = "raised"
              ELSE /\ a_pc' = IF i < Len(RequiredCommands) THEN "probe" ELSE "env"
                   /\ UNCHANGED error
    /\ UNCHANGED <<work_tree, signer, dim, attempts, invoked, first_failure, last>>
    /\ UNCHANGED <<available, env_file, arg_work_directory, work_directory, cpus, cmd,
                   docker_cmdline, cmd_file, started, container_exit, rmtree_fails, pre_tree, lvars, rvars>>

\* __init__, lines 44-46.
CheckEnvFile ==
    /\ a_pc = "env"
    /\ IF ~env_file
       THEN /\ error' = [type |-> "EnvironmentError", about |-> <<".env">>]
            /\ a_pc' = "raised"
       ELSE /\ a_pc' = "workdir"
            /\ UNCHANGED error
    /\ UNCHANGED <<work_tree, signer, dim, attempts, invoked, first_failure, last>>
    /\ UNCHANGED <<available, probed, env_file, arg_work_directory, work_directory, cpus, cmd,
                   docker_cmdline, cmd_file, started, container_exit, rmtree_fails, pre_tree, lvars, rvars>>

\* __init__, lines 53-69: the work directory is the caller's or a fresh
\* temporary one; os.makedirs creates it when it does not exist; a directory
\* that is not empty is refused.
SetUpWorkDirectory ==
    /\ a_pc = "workdir"
    /\ LET temporary == ~Truthy(arg_work_directory)
           name == IF temporary THEN TempName ELSE arg_work_directory
           tree == IF temporary \/ work_tree = <<>> THEN EmptyTree(name) ELSE work_tree
       IN  /\ work_directory' = [kind |-> IF temporary THEN "tmp" ELSE "str", name |-> name]
           /\ work_tree' = tree
           /\ IF ~ListdirEmpty(tree)
              THEN /\ error' = [type |-> "EnvironmentError", about |-> <<"Output directory">>]
                   /\ a_pc' = "raised"
              ELSE /\ a_pc' = "container"
                   /\ UNCHANGED error
    /\ UNCHANGED <<signer, dim, attempts, invoked, first_failure, last>>
    /\ UNCHANGED <<available, probed, env_file, arg_work_directory, cpus, cmd,
                   docker_cmdline, cmd_file, started, container_exit, rmtree_fails, pre_tree, lvars, rvars>>

\* execute_docker_container, lines 85-105: the argument list is assembled and
\* written to top-execute-cmd.txt in the work directory.
WriteCommandFile ==
    /\ a_pc = "container"
    /\ cmd' = DockerCmd(work_directory.name, DockerContainer, PackageUrl, cpus)
    /\ docker_cmdline' = ShlexJoin(cmd')
    /\ cmd_file' = docker_cmdline'
    /\ work_tree' = [work_tree EXCEPT ![1].files =
                        IF TopFile \in Range(@) THEN @ ELSE Append(@, TopFile)]
    /\ a_pc' = "popen"
    /\ UNCHANGED <<signer, dim, attempts, invoked, first_failure, last>>
    /\ UNCHANGED <<available, probed, env_file, arg_work_directory, work_directory, cpus,
                   started, container_exit, error, rmtree_fails, pre_tree, lvars, rvars>>

\* execute_docker_container, lines 107-120: the container runs to its end,
\* leaving its outputs in the work directory; a non-zero exit code raises.
RunContainer ==
    /\ a_pc = "popen"
    /\ started' = Append(started, cmd)
    /\ work_tree' \in TreesAt(work_directory.name)
    /\ \E code \in ExitCodes :
         /\ container_exit' = code
         /\ IF ~ExitedZero(code)
            THEN /\ error' = [type |-> "RuntimeError", about |-> <<"docker container">>]
                 /\ a_pc' = "raised"
            ELSE /\ a_pc' = "assert"
                 /\ UNCHANGED error
    /\ UNCHANGED <<signer, dim, attempts, invoked, first_failure, last>>
    /\ UNCHANGED <<available, probed, env_file, arg_work_directory, work_directory, cpus, cmd,
                   docker_cmdline, cmd_file, rmtree_fails, pre_tree, lvars, rvars>>

\* Faulty variant: every work directory is taken for a temporary one.
IsTemporary_Any(wd) == wd.kind # "unset"

\* Line 76: isinstance(self.work_directory, tempfile.TemporaryDirectory)
IsTemporary(wd) == wd.kind = "tmp"

\* The run ends, by the return of execute_assertions or by an exception. A
\* TemporaryDirectory is removed (lines 58-60 and 74-80); with
\* ignore_cleanup_errors a failure to remove it is not raised.
ScopeExit ==
    /\ a_pc \in {"done", "raised"}
    /\ a_pc' = "exited"
    /\ IF IsTemporary(work_directory) /\ ~rmtree_fails
       THEN /\ work_tree' = <<>>
            /\ cmd_file' = NoText
       ELSE UNCHANGED <<work_tree, cmd_file>>
    /\ UNCHANGED <<signer, dim, attempts, invoked, first_failure, last>>
    /\ UNCHANGED <<available, probed, env_file, arg_work_directory, work_directory, cpus, cmd,
                   docker_cmdline, started, container_exit, error, rmtree_fails, pre_tree, lvars, rvars>>

RunNext ==
    \/ ProbeCommand
    \/ CheckEnvFile
    \/ SetUpWorkDirectory
    \/ WriteCommandFile
    \/ RunContainer
    \/ SkipAssertion
    \/ ExecuteAssertion
    \/ ScopeExit

(***************************************************************************)
(* History of the call and of the pass in progress, read from the logs.    *)
(***************************************************************************)
\* The steps of the given kinds in the log of the pass in progress.
Steps(kinds) == {i \in 1..Len(log) : log[i][1] \in kinds}

\* The subjects whose pass began in the current top-level call, in order.
RECURSIVE Begun(_)
Begun(l) ==
    IF l = <<>> THEN <<>>
    ELSE IF Head(l)[1] = "begin" THEN <<Head(l)[2]>> \o Begun(Tail(l))
    ELSE Begun(Tail(l))

ResultsOf(rs, s) == {r \in rs : r.subject = s}
StoreUnchanged ==
    /\ results = pre.results
    /\ policies = pre.policies
    /\ assertions = pre.assertions

(***************************************************************************)
(* Claims about refresh_policies.                                          *)
(***************************************************************************)

\* C1: in a fan-out refresh, when the evaluator call of one subject times out,
\* that subject gets no upsert and no delete, no exception leaves
\* refresh_policies, and every subject after it is still refreshed.
C1_TimeoutIsNonFatal ==
    (fanout /\ \E i \in 1..Len(calllog) : calllog[i][1] = "timeout") =>
        /\ pc \notin {"raise", "raised"}
        /\ Steps({"timeout"}) # {} => Steps({"upsert", "delete"}) = {}
        /\ pc = "returned" => Begun(calllog) = SubjectIds

\* C2: after completed refresh passes every evaluated (policy, subject) pair
\* has exactly one stored PolicyEvaluationResult.
C2_OneResultPerPair ==
    pc \in {"return", "returned"} =>
        /\ \A r1, r2 \in results :
               (r1.policy = r2.policy /\ r1.subject = r2.subject) => r1 = r2
        /\ \A i \in Steps({"upsert"}) :
               \E r \in results : r.subject = log[i][2] /\ r.policy = log[i][3]

\* The (policy, status) keys of the parsed results.
ParsedKeys ==
    {<<parsed[i].policy_identifier, NormalizeStatus(GetState(parsed[i]).val)>> :
        i \in 1..Len(parsed)}

\* A pass with clear_first that processed n >= 1 parsed results to the end.
ClearedPassDone ==
    /\ pc = "return"
    /\ outcome = "ok"
    /\ clear_first
    /\ Len(parsed) >= 1

C4_DeleteOnceBeforeUpserts ==
    /\ Cardinality(Steps({"delete"})) <= 1
    /\ \A i \in Steps({"delete"}) :
           /\ clear_first
           /\ log[i][2] = subject
           /\ \A j \in Steps({"upsert"}) : i < j

\* C4 witness: a pass that deleted and then upserted two results.
C4_Witness ==
    /\ pc = "return"
    /\ Cardinality(Steps({"delete"})) = 1
    /\ Cardinality(Steps({"upsert"})) = 2

\* C5: a fan-out call refreshes exactly the existing subjects, each once, in
\* enumeration order, each pass ended before the next begins.
C5_FanoutRefreshesAll ==
    (fanout /\ pc \in {"returned", "raised"}) =>
        /\ Begun(calllog) = SubjectIds
        /\ \A i \in 1..Len(calllog) :
               (calllog[i][1] = "begin" /\ i > 1) => calllog[i - 1][1] = "end"
        /\ calllog[Len(calllog)][1] = "end"

\* C8: when the evaluator exits non-zero, or exits 0 with a stdout that is no
\* JSON, the pass changes nothing in the store and ends without raising.
C8_FailedRunIsNoOp ==
    (pc \notin {"idle", "invoke"} /\ res # NoResult /\ (res.returncode # 0 \/ ~res.valid)) =>
        /\ StoreUnchanged
        /\ pc \in {"parse", "return", "returned", "fanout"}
        /\ Steps({"get_or_create", "delete", "upsert"}) = {}

\* C8 witness: a run that failed although it printed results, with clear_first
\* and earlier results of the subject in the store.
C8_Witness ==
    /\ pc = "return"
    /\ outcome = "eval_failed"
    /\ clear_first
    /\ Len(res.json) >= 1
    /\ ResultsOf(results, subject) # {}

\* C9: a pass for subject S leaves every Assertion unchanged, leaves the
\* results of every other subject unchanged, deletes no Policy and renames no
\* Policy that existed.
C9_PassFrame ==
    subject # None =>
        /\ assertions = pre.assertions
        /\ \A s \in SubjectSet \ {subject} : ResultsOf(results, s) = ResultsOf(pre.results, s)
        /\ pre.policies \subseteq policies
        /\ \A p, q \in policies : p.identifier = q.identifier => p = q

\* C9 witness: a completed pass that changed the subject's results, created a
\* policy, and processed a result naming an existing policy differently.
C9_Witness ==
    /\ pc = "return"
    /\ outcome = "ok"
    /\ results # pre.results
    /\ policies # pre.policies
    /\ \E i \in 1..Len(parsed), p \in pre.policies :
           /\ parsed[i].policy_identifier = p.identifier
           /\ parsed[i].policy_name # p.name

\* C10: a pass for a subject that is not of the package-URL type invokes no
\* evaluator, serializes no assertion, changes nothing in the store and does
\* not raise.
C10_OtherTypeIsNoOp ==
    (subject # None /\ subject_type[subject] # SUBJECT_TYPE_PACKAGE_URL) =>
        /\ StoreUnchanged
        /\ tmpdir = {}
        /\ res = NoResult
        /\ pc \in {"validate", "return", "returned", "fanout"}
        /\ log = <<>>

\* C10 witness: such a pass ended, called with clear_first, the subject having
\* results in the store.
C10_Witness ==
    /\ pc = "return"
    /\ outcome = "invalid_type"
    /\ clear_first
    /\ ResultsOf(results, subject) # {}

\* C19: when the evaluator exits 0 and prints a JSON array with an element
\* that is no well-formed result (here: its state is null), the pass upserts
\* no result, creates no Policy, deletes nothing and does not raise.
C19_MalformedOutputIsNoOp ==
    (/\ res # NoResult
     /\ res.returncode = 0
     /\ res.valid
     /\ \E i \in 1..Len(res.json) : res.json[i] \in MalformedElements) =>
        /\ StoreUnchanged
        /\ Steps({"get_or_create", "delete", "upsert"}) = {}
        /\ pc \notin {"raise", "raised"}

\* C20: the bulk delete runs only in a pass that parsed at least one result;
\* after a pass with clear_first whose evaluator exited 0 and printed an empty
\* array, the subject's results are those it had before the pass.
C20_EmptyOutputDeletesNothing ==
    /\ Steps({"delete"}) # {} => Len(parsed) >= 1
    /\ (/\ clear_first
        /\ res # NoResult
        /\ res.returncode = 0
        /\ res.valid
        /\ res.json = <<>>) =>
           /\ results = pre.results
           /\ pc \in {"parse", "return", "returned", "fanout"}

\* C20 witness: such a pass has returned for a subject with three results.
C20_Witness ==
    /\ pc = "return"
    /\ outcome = "ok"
    /\ clear_first
    /\ res.returncode = 0
    /\ res.valid
    /\ parsed = <<>>
    /\ Cardinality(ResultsOf(results, subject)) = 3

\* The (policy, status) keys of the results pass p parsed.
KeysOf(p) ==
    {<<c_parsed[p][i].policy_identifier, NormalizeStatus(GetState(c_parsed[p][i]).val)>> :
        i \in 1..Len(c_parsed[p])}
BothDone == \A p \in Procs : c_pc[p] = "done"

\* C21: when two passes with clear_first for one subject, each with at least
\* one parsed result, have both completed, in whatever order their atomic
\* database operations were interleaved: no row of the subject from before
\* the passes is left, every result of the subject is one that a pass
\* upserted, and every result of the pass whose delete ran last is present.
C21_LastDeleterWins ==
    BothDone =>
        /\ ResultsOf(results, subject) \cap pre.results = {}
        /\ \A r \in ResultsOf(results, subject) :
               <<r.policy, r.status>> \in UNION {KeysOf(p) : p \in Procs}
        /\ last_delete \in Procs
        /\ \A k \in KeysOf(last_delete) :
               \E r \in ResultsOf(results, subject) : <<r.policy, r.status>> = k

\* C21 witness: both passes are done; a result of the pass that deleted first
\* was lost to the other's delete, and another of its results, upserted
\* after that delete, stands beside the results of the pass that deleted last.
C21_Witness ==
    /\ BothDone
    /\ last_delete = 2
    /\ \E k \in KeysOf(1) \ KeysOf(2) :
           \A r \in ResultsOf(results, subject) : <<r.policy, r.status>> # k
    /\ \E k \in KeysOf(1) \ KeysOf(2) :
           \E r \in ResultsOf(results, subject) : <<r.policy, r.status>> = k

(***************************************************************************)
(* Claims about AnalysisRunner.execute_assertions.                         *)
(***************************************************************************)
InvocationsOf(d) == Cardinality({i \in 1..Len(invoked) : invoked[i].dim = d})

\* C6: in one run of execute_assertions every dimension is attempted exactly
\* once, in the fixed order, without retry; a failed invocation (an exception
\* or a non-zero exit) neither stops the attempts after it nor leaves
\* execute_assertions.
C6_EveryDimensionAttemptedOnce ==
    /\ a_pc # "raised"
    /\ attempts = [i \in 1..(dim - 1) |-> i]
    /\ \A d \in 1..Len(Dimensions) : InvocationsOf(d) <= 1
    /\ a_pc = "assert" => (dim <= Len(Dimensions) /\ ENABLED AnalyzeNext)
    /\ a_pc = "done" =>
           [i \in 1..Len(attempts) |-> Dimensions[attempts[i]].assertion]
               = << "SecurityScorecard", "SecurityAdvisory", "Reproducible",
                    "SecurityToolFinding", "SecurityToolFinding", "SecurityToolFinding",
                    "SecurityToolFinding", "ProgrammingLanguage", "Characteristic",
                    "CryptoImplementation", "ClamAV", "Metadata" >>

\* C6 witness: the run ended although the first dimension's invocation raised.
C6_Witness ==
    /\ a_pc = "done"
    /\ first_failure = [dim |-> 1, outcome |-> "OSError"]
    /\ Len(attempts) = Len(Dimensions)

\* C7: a dimension that needs an input artifact for which the locator returned
\* null is never invoked; a dimension that needs no artifact is never skipped.
C7_SkipOnlyWithoutArtifact ==
    \A d \in 1..Len(Dimensions) :
        /\ (/\ Dimensions[d].artifact # NoFile
            /\ find_output_file(work_tree, Dimensions[d].artifact) = NotFound)
               => InvocationsOf(d) = 0
        /\ (Dimensions[d].artifact = NoFile /\ d \in Range(attempts))
               => InvocationsOf(d) = 1

\* C7 witness: a finished run that skipped a dimension whose artifact was not
\* found and invoked one whose artifact was found.
C7_Witness ==
    /\ a_pc = "done"
    /\ \E d \in 1..Len(Dimensions) :
           /\ Dimensions[d].artifact # NoFile
           /\ find_output_file(work_tree, Dimensions[d].artifact) = NotFound
           /\ InvocationsOf(d) = 0
    /\ \E d \in 1..Len(Dimensions) :
           /\ Dimensions[d].artifact # NoFile
           /\ find_output_file(work_tree, Dimensions[d].artifact) # NotFound
           /\ InvocationsOf(d) = 1

\* The positions of a command line that pass the flag --key, in either of
\* the forms "--key value" and "--key=value".
FlagPositions(c, key) ==
    {i \in 1..Len(c) : \/ "flag" \in DOMAIN c[i] /\ c[i].flag = key
                       \/ "flageq" \in DOMAIN c[i] /\ c[i].flageq = key}

\* C17: in every command line passed to the assertion utility each of the
\* flags --assertion, --subject, --repository, --signer, --expiration,
\* --input-file and --extra-args appears at most once, and --signer appears
\* only when a signer was configured.
C17_FlagsAtMostOnce ==
    \A n \in 1..Len(invoked) :
        /\ \A key \in {"assertion", "subject", "repository", "signer", "expiration",
                       "input-file", "extra-args"} :
               Cardinality(FlagPositions(invoked[n].cmd, key)) <= 1
        /\ signer = None => FlagPositions(invoked[n].cmd, "signer") = {}

(***************************************************************************)
(* Claims about a run of analyze.py.                                       *)
(***************************************************************************)
\* C12: when the container exits with a non-zero code the run ends with the
\* RuntimeError propagated: the container is started once and never again,
\* and no assertion dimension is attempted or invoked; assertion generation
\* is only ever under way after an exit code of 0.
C12_ContainerFailureIsFatal ==
    /\ Len(started) <= 1
    /\ (container_exit # NoExit /\ container_exit # 0) =>
           /\ a_pc \in {"raised", "exited"}
           /\ error.type = "RuntimeError"
           /\ attempts = <<>>
           /\ invoked = <<>>
    /\ (a_pc \in {"assert", "done"} \/ attempts # <<>> \/ invoked # <<>>) =>
           container_exit = 0

\* C12 witness: the run ended after a container that failed although it left
\* the artifacts of every tool in the work directory.
C12_Witness ==
    /\ a_pc = "exited"
    /\ container_exit = 1
    /\ Len(started) = 1
    /\ attempts = <<>>
    /\ \A d \in 1..Len(Dimensions) :
           Dimensions[d].artifact # NoFile =>
               find_output_file(work_tree, Dimensions[d].artifact) # NotFound

\* C14: when the directory the caller supplied is not empty, the construction
\* raises the EnvironmentError of line 69 as soon as it reaches the work
\* directory, no container is started, no assertion is attempted, and at all
\* times the directory holds what it held: no file is written, none removed.
C14_UsedDirectoryIsRefused ==
    (/\ Truthy(arg_work_directory)
     /\ Len(pre_tree) > 1 \/ \E i \in 1..Len(pre_tree) : pre_tree[i].files # <<>>) =>
        /\ work_tree = pre_tree
        /\ cmd_file = OldText
        /\ started = <<>>
        /\ attempts = <<>>
        /\ invoked = <<>>
        /\ a_pc \in {"probe", "env", "workdir", "raised", "exited"}
        /\ work_directory # NoDirectory =>
               /\ a_pc \in {"raised", "exited"}
               /\ error = [type |-> "EnvironmentError", about |-> <<"Output directory">>]

\* C14 witness: the run ended on the refusal of the caller's used directory.
C14_Witness ==
    /\ a_pc = "exited"
    /\ arg_work_directory = "/my work"
    /\ error.about = <<"Output directory">>
    /\ work_tree = UsedTree("/my work")
    /\ work_directory.kind = "str"

\* C15: a temporary work directory exists and is empty when the construction
\* has allocated it; once the run has ended, by a return or by an exception,
\* it is absent, unless its removal failed, and then the failure is not raised:
\* the run ends with the error it had, or none. A directory the caller
\* supplied is never removed.
C15_TemporaryDirectoryIsScoped ==
    /\ (work_directory.kind = "tmp" /\ a_pc = "container") =>
           work_tree = EmptyTree(work_directory.name)
    /\ (work_directory.kind = "tmp" /\ a_pc \notin {"container", "exited"}) =>
           work_tree # <<>>
    /\ (work_directory.kind = "tmp" /\ a_pc = "exited") =>
           /\ ~rmtree_fails => work_tree = <<>>
           /\ error = IF container_exit = 0 THEN NoError
                      ELSE [type |-> "RuntimeError", about |-> <<"docker container">>]
    /\ work_directory.kind = "str" => work_tree # <<>>
    /\ (Truthy(arg_work_directory) /\ pre_tree # <<>>) => work_tree # <<>>

\* C15 witness: a run on a temporary directory ended by the exception of a
\* failed container, and the directory with the container's outputs is gone.
C15_Witness ==
    /\ a_pc = "exited"
    /\ work_directory.kind = "tmp"
    /\ ~rmtree_fails
    /\ container_exit = 1
    /\ error.type = "RuntimeError"
    /\ work_tree = <<>>

(***************************************************************************)
(* Claim about find_output_file.                                           *)
(***************************************************************************)
\* The paths of the files named exactly like the query, and of the files
\* matching it as a glob, in the order of the walk.
RECURSIVE PathsOf(_, _, _)
PathsOf(tree, filename, glob) ==
    IF tree = <<>> THEN <<>>
    ELSE LET Keep(f) == IF glob THEN Fnmatch(f, filename) ELSE f = filename
             kept == SelectSeq(Head(tree).files, Keep)
         IN  [i \in 1..Len(kept) |-> Join(Head(tree).root, kept[i])]
             \o PathsOf(Tail(tree), filename, glob)
ExactPaths == PathsOf(work_tree, query, FALSE)
GlobPaths == PathsOf(work_tree, query, TRUE)

\* C16: find_output_file returns the path of a file named exactly like the
\* query whenever the tree has one, the first glob match of the walk when it
\* has none, and None exactly when no file matches exactly or as a glob.
C16_ExactPreferredOverGlob ==
    a_pc = "located" =>
        /\ ExactPaths # <<>> => located \in Range(ExactPaths)
        /\ (ExactPaths = <<>> /\ GlobPaths # <<>>) => located = GlobPaths[1]
        /\ located = NotFound <=> (ExactPaths = <<>> /\ GlobPaths = <<>>)

\* What a shell reads from a line written by shlex.join: the arguments,
\* their quotes removed.
ShlexSplit(line) ==
    [i \in 1..Len(line) |-> IF "quoted" \in DOMAIN line[i] THEN line[i].quoted ELSE line[i].raw]

\* The positions of a --cpus flag in an argument list.
CpusPositions(argv) == {i \in 1..Len(argv) : argv[i][1] = "--cpus="}

\* C18: a container process is started only when top-execute-cmd.txt is in
\* the work directory, holding the very command that is started; with
\* OMEGA_DOCKER_CPUS set to a non-empty value N the command has --cpus=N once,
\* immediately before -t, and otherwise it has no --cpus flag.
C18_CommandFileBeforeStart ==
    /\ [][started' # started =>
             /\ TopFile \in Range(work_tree[1].files)
             /\ cmd_file # NoText
             /\ ShlexSplit(cmd_file) = started'[Len(started')]
             /\ Len(cmd_file) = Len(started'[Len(started')])]_vars
    /\ [](\A n \in 1..Len(started) :
             IF Truthy(cpus)
             THEN /\ Cardinality(CpusPositions(started[n])) = 1
                  /\ \A i \in CpusPositions(started[n]) :
                         /\ started[n][i] = <<"--cpus=", cpus>>
                         /\ i < Len(started[n])
                         /\ started[n][i + 1] = <<"-t">>
             ELSE CpusPositions(started[n]) = {})

\* C18 witness: the container was started on a directory whose name needs
\* quoting, with a CPU limit of 2, and the file holds the quoted command.
C18_Witness ==
    /\ Len(started) = 1
    /\ cpus = "2"
    /\ work_directory.name = "/my work"
    /\ cmd_file # NoText
    /\ \E i \in 1..Len(cmd_file) : "quoted" \in DOMAIN cmd_file[i]
    /\ ShlexSplit(cmd_file) = started[1]
    /\ started[1][4] = <<"--cpus=", "2">>

\* The required commands that are not available.
Missing == {i \in 1..Len(RequiredCommands) : ~available[i]}
FirstMissing == CHOOSE i \in Missing : \A j \in Missing : i <= j

\* C13: when a required command is unavailable, the construction raises an
\* EnvironmentError naming the first unavailable command of the list, the
\* commands before it and no command after it have been probed, and up to
\* then and ever after no work directory is allocated or created, no file is
\* written, no container is started and no assertion is attempted.
C13_FirstMissingToolFailsClosed ==
    /\ []((Missing # {} /\ a_pc # "probe") =>
             /\ a_pc \in {"raised", "exited"}
             /\ error = [type |-> "EnvironmentError", about |-> RequiredCommands[FirstMissing]]
             /\ probed = SubSeq(RequiredCommands, 1, FirstMissing)
             /\ work_directory = NoDirectory
             /\ started = <<>>
             /\ attempts = <<>>
             /\ invoked = <<>>)
    /\ [][(Missing # {} \/ a_pc = "probe") =>
             UNCHANGED <<work_tree, work_directory, cmd_file, started, attempts, invoked>>]_vars

\* C13 witness: the fourth and fifth commands are unavailable, the caller's
\* work directory does not exist, and the run has ended.
C13_Witness ==
    /\ a_pc = "exited"
    /\ Missing = {4, 5}
    /\ Len(probed) = 4
    /\ error.about = <<"docker", "--help">>
    /\ arg_work_directory = "/work"
    /\ work_tree = <<>>

\* refresh_policies, called any number of times on one store.
Init == RefreshInit /\ AnalyzeOff
Next == RefreshNext
Spec == Init /\ [][Next]_vars

\* One run of AnalysisRunner.execute_assertions.
RefreshOff ==
    /\ RefreshInit
    /\ subject_type = [s \in SubjectSet |-> SUBJECT_TYPE_PACKAGE_URL]
InitAnalyze == RefreshOff /\ AnalyzeInit
NextAnalyze == AnalyzeNext
SpecAnalyze == InitAnalyze /\ [][NextAnalyze]_vars

\* Two passes with clear_first for one subject, interleaved in every way.
InitConcurrent == ConcurrentInit /\ AnalyzeOff
NextConcurrent == ConcurrentNext
SpecConcurrent == InitConcurrent /\ [][NextConcurrent]_vars

\* One call of find_output_file on a work directory of two directories.
InitLocate == RefreshOff /\ LocateInit
NextLocate == Locate
SpecLocate == InitLocate /\ [][NextLocate]_vars

\* One run of analyze.py from the construction of the runner to its end.
InitRun == RefreshOff /\ RunInit
NextRun == RunNext
SpecRun == InitRun /\ [][NextRun]_vars

(***************************************************************************)
(* Status normalization over a table of state strings: one pass whose      *)
(* evaluator printed one result, followed from json.loads to the upsert.   *)
(***************************************************************************)
\* The upper-case form of a character, where the alphabet has one.
ToUpper(c) == IF \E u \in DOMAIN Upper : Upper[u] = c
              THEN CHOOSE u \in DOMAIN Upper : Upper[u] = c
              ELSE c

\* Spellings of a word: lower case, upper case, capitalized, alternating.
Cased(w) ==
    { w,
      [i \in 1..Len(w) |-> ToUpper(w[i])],
      [i \in 1..Len(w) |-> IF i = 1 THEN ToUpper(w[i]) ELSE w[i]],
      [i \in 1..Len(w) |-> IF i % 2 = 0 THEN ToUpper(w[i]) ELSE w[i]] }

Words ==
    { StrPass, StrFail, StrFailed, <<>>,
      <<"p", "a", "s", "s", "e", "d">>, <<"f", "a", " ", "i", "l">>,
      <<"i", "d", "l", "e">>, <<"f">> }

\* The strings result.get("state", "") may return (line 70).
StateStrings ==
    { l \o c \o r : l \in SeqsUpTo(Whitespace, MaxPad), r \in SeqsUpTo(Whitespace, MaxPad),
                    c \in UNION {Cased(w) : w \in Words} }

\* The state of a result: one of the strings, or the key is missing.
StateValues == {JStr(s) : s \in StateStrings} \cup {JAbsent}

\* The pass has reached line 53 for the first subject: the evaluator exited 0
\* and printed an array of one result.
InitNormalize ==
    /\ subject_type = [s \in SubjectSet |-> SUBJECT_TYPE_PACKAGE_URL]
    /\ assertions = InitialAssertions
    /\ policies = InitialPolicies
    /\ results = InitialResults
    /\ next_pk = 5
    /\ pc = "parse"
    /\ passes = 1
    /\ fanout = FALSE
    /\ queue = <<>>
    /\ subject = SubjectIds[1]
    /\ clear_first \in BOOLEAN
    /\ tmpdir = SerializedFiles(SubjectIds[1])
    /\ \E st \in StateValues :
           res = [kind |-> "exit", returncode |-> 0, valid |-> TRUE,
                  json |-> << JObj("p1", "Policy A", st) >>]
    /\ parsed = <<>>
    /\ idx = 0
    /\ policy = None
    /\ status = None
    /\ already_cleared = FALSE
    /\ outcome = "running"
    /\ pre = Snapshot
    /\ log = << <<"serialize", SubjectIds[1], Cardinality(SerializedFiles(SubjectIds[1]))>>,
                <<"evaluate", SubjectIds[1]>> >>
    /\ calllog = << <<"begin", SubjectIds[1]>> >>
    /\ ConcurrentOff
    /\ AnalyzeOff

NextNormalize ==
    \/ ParseOutput
    \/ GetOrCreate
    \/ ClearExisting
    \/ Upsert
    \/ Return
SpecNormalize == InitNormalize /\ [][NextNormalize]_vars

(***************************************************************************)
(* Claim about status normalization.                                       *)
(***************************************************************************)
\* s is the word w in any letter case, with whitespace around it.
Spells(s, w) ==
    \E i \in 0..Len(s) :
        /\ i + Len(w) <= Len(s)
        /\ \A k \in 1..i : s[k] \in Whitespace
        /\ \A k \in 1..Len(w) : s[i + k] \in {w[k], ToUpper(w[k])}
        /\ \A k \in (i + Len(w) + 1)..Len(s) : s[k] \in Whitespace

\* The table of the specification, for a state that is a string or absent.
StatusTable(st) ==
    IF st.tag = "absent" THEN UNKNOWN
    ELSE IF Spells(st.val, StrPass) THEN PASSED
    ELSE IF Spells(st.val, StrFail) \/ Spells(st.val, StrFailed) THEN FAILED
    ELSE IF \A k \in 1..Len(st.val) : st.val[k] \in Whitespace THEN UNKNOWN
    ELSE INDETERMINATE

\* C11: for every state that is a string or absent the pass computes a status
\* and does not raise; the status is PASSED for "pass", FAILED for "fail" or
\* "failed", UNKNOWN for an empty or absent state and INDETERMINATE for any
\* other string, letter case and surrounding whitespace disregarded; and the
\* status stored by the upsert is that of the table.
C11_StatusIsTableImage ==
    /\ pc # "raise"
    /\ pc \in {"clear", "upsert"} => status = StatusTable(parsed[1].state)
    /\ pc = "return" =>
           /\ status = StatusTable(parsed[1].state)
           /\ \E r \in ResultsOf(results, subject) :
                  /\ r.policy = parsed[1].policy_identifier
                  /\ r.status = StatusTable(parsed[1].state)
           /\ \A r \in results \ pre.results :
                  r.status = StatusTable(parsed[1].state)

\* C11 witness: the state "\tFaIlEd " was stored as FAILED in a new row.
C11_Witness ==
    /\ pc = "return"
    /\ parsed[1].state = JStr(<<"\t", "f", "A", "i", "L", "e", "D", " ">>)
    /\ status = FAILED
    /\ \E r \in results \ pre.results : r.status = FAILED

=============================================================================
